---- MODULE Spec2Model ----
(***************************************************************************)
(* A model of src/index.js: the selector parser (CssSelector), its         *)
(* serializer, the page glue that re-parses the text pane on every keyup,  *)
(* and the selector matcher (SelectorMatcher, SelectorContext,             *)
(* SelectorListContext).                                                   *)
(*                                                                         *)
(* A JavaScript string is a sequence of one-character strings; null is the *)
(* value Null.                                                             *)
(***************************************************************************)
EXTENDS Integers, Sequences, FiniteSets, TLC

VARIABLES
    origin,          \* the text pane (#origin)
    edits,           \* how many edits the text pane has received
    parsed,          \* the output pane (#parsed)
    lastParse,       \* what CssSelector.parse did in the last parseContent
    matcher,         \* the top-level SelectorMatcher
    alreadyMatched,  \* the alreadyMatched flag of each SelectorListContext
    registered,      \* the addSelectables calls made so far
    lastMatch        \* the last top-level match call and what it did

vars == <<origin, edits, parsed, lastParse,
          matcher, alreadyMatched, registered, lastMatch>>

pageVars == <<origin, edits, parsed, lastParse>>
matcherVars == <<matcher, alreadyMatched, registered, lastMatch>>

(***************************************************************************)
(* Bounds of the model.                                                    *)
(***************************************************************************)
\* number of edits (keystrokes or pastes) made to the text pane
MaxEdits == 4
\* number of addSelectables calls on the top-level matcher
MaxBatches == 2

Null == <<"<null>">>

Str(c) == <<c>>

RECURSIVE Concat(_)
Concat(ss) == IF ss = <<>> THEN <<>> ELSE Head(ss) \o Concat(Tail(ss))

Min(S) == CHOOSE x \in S : \A y \in S : x <= y

(***************************************************************************)
(* The character classes of _SELECTOR_REGEXP, over the characters the      *)
(* model types.                                                            *)
(***************************************************************************)
NotOpen == <<":", "n", "o", "t", "(">>

\* what one edit appends to the text pane: a character, or a pasted fragment
Pieces ==
    { Str(c) : c \in {"a", "B", ".", "#", "[", "]", "=", "\\", "$", "*",
                      ")", ",", " ", "'"} }
    \cup { NotOpen, <<"[", "a", "=", "'", "B">> }

\* the characters of a text: those typed, and those only the serializer writes
\* ("b" for a lowercased "B", "id" for the attribute a "#" fragment stands for)
Chars == UNION { {p[i] : i \in 1..Len(p)} : p \in Pieces } \cup {"b", "i", "d"}

\* [-\w]
WordChars == {"a", "b", "B", "n", "o", "t", "i", "d"}
\* [-.\w*\\$]
NameChars == WordChars \cup {".", "*", "\\", "$"}
\* [^\]"'] (the single quote is the only quote the model types)
ValueChars == Chars \ {"]", "'"}
\* \s
SpaceChars == {" "}

\* String.prototype.toLowerCase
LowerChar(c) == IF c = "B" THEN "b" ELSE c
toLowerCase(s) == [i \in 1..Len(s) |-> LowerChar(s[i])]

\* the end (exclusive) of the longest run of characters of C that starts at p
RunEndOf(stops, len) == IF stops = {} THEN len + 1 ELSE Min(stops)
RunEnd(s, p, C) == RunEndOf({i \in p..Len(s) : s[i] \notin C}, Len(s))

Slice(s, from, to) == SubSeq(s, from, to - 1)

StartsWith(s, p, pre) ==
    /\ p + Len(pre) - 1 <= Len(s)
    /\ SubSeq(s, p, p + Len(pre) - 1) = pre

NoToken == [kind |-> "none"]

(***************************************************************************)
(* One attempt of _SELECTOR_REGEXP at position p: the alternatives in the  *)
(* order of the pattern, the first that matches wins.  end is the position *)
(* after the match (the next lastIndex).                                   *)
(***************************************************************************)
\* 1: ":not("
TryNot(s, p) ==
    IF StartsWith(s, p, NotOpen)
    THEN [kind |-> "not", end |-> p + Len(NotOpen)]
    ELSE NoToken

\* 2: "tag"; 3: "."/"#".  q is the position after the optional prefix, e the
\* end of the run of [-\w] from q, which must not be empty
TagAt(s, p, q, e) ==
    IF e > q
    THEN [kind |-> "tag", tag |-> Slice(s, p, e), prefix |-> Slice(s, p, q),
          end |-> e]
    ELSE NoToken

TagFrom(s, p, q) == TagAt(s, p, q, RunEnd(s, q, WordChars))

TryTag(s, p) == TagFrom(s, p, IF s[p] \in {".", "#"} THEN p + 1 ELSE p)

\* 4: attribute; 5: attribute_string; 6: attribute_value.
\* The value starts at v and runs over [^\]"'] to e; a quoted value must be
\* closed by the same quote, and "]" must follow.
AttributeValueAt(s, name, quoted, v, e) ==
    LET close == IF quoted THEN e + 1 ELSE e
    IN  IF /\ close <= Len(s)
           /\ s[close] = "]"
           /\ quoted => s[e] = "'"
        THEN [kind |-> "attribute", attribute |-> name, value |-> Slice(s, v, e),
              end |-> close + 1]
        ELSE NoToken

AttributeValueFrom(s, name, quoted, v) ==
    AttributeValueAt(s, name, quoted, v, RunEnd(s, v, ValueChars))

\* after "=" at n: an optional quote, then the value
AttributeValue(s, n, name, quoted) ==
    AttributeValueFrom(s, name, quoted, IF quoted THEN n + 2 ELSE n + 1)

\* the name is the run of [-.\w*\\$] from p + 1 to n, which must not be
\* empty; "]" or "=" must follow it
AttributeAfterName(s, p, n) ==
    IF n = p + 1 \/ n > Len(s) THEN NoToken
    ELSE IF s[n] = "]"
    THEN [kind |-> "attribute", attribute |-> Slice(s, p + 1, n), value |-> <<>>,
          end |-> n + 1]
    ELSE IF s[n] # "=" THEN NoToken
    ELSE AttributeValue(s, n, Slice(s, p + 1, n),
                        n + 1 <= Len(s) /\ s[n + 1] = "'")

TryAttribute(s, p) ==
    IF s[p] # "[" THEN NoToken
    ELSE AttributeAfterName(s, p, RunEnd(s, p + 1, NameChars))

\* 7: ")"
TryNotEnd(s, p) ==
    IF s[p] = ")" THEN [kind |-> "notEnd", end |-> p + 1] ELSE NoToken

\* 8: ",": white space, the comma at c, white space
SeparatorAt(s, c) ==
    IF c <= Len(s) /\ s[c] = ","
    THEN [kind |-> "separator", end |-> RunEnd(s, c + 1, SpaceChars)]
    ELSE NoToken

TrySeparator(s, p) == SeparatorAt(s, RunEnd(s, p, SpaceChars))

\* the first of the alternatives that matches
FirstOf(tries) ==
    LET hits == {i \in 1..Len(tries) : tries[i] # NoToken}
    IN  IF hits = {} THEN NoToken ELSE tries[Min(hits)]

MatchAt(s, p) ==
    FirstOf(<<TryNot(s, p), TryTag(s, p), TryAttribute(s, p), TryNotEnd(s, p),
              TrySeparator(s, p)>>)

\* the match at the leftmost position that has one
Leftmost(at) ==
    LET hits == {p \in DOMAIN at : at[p] # NoToken}
    IN  IF hits = {} THEN NoToken ELSE at[Min(hits)]

\* _SELECTOR_REGEXP.exec(selector) from lastIndex
RegExpExec(s, lastIndex) ==
    Leftmost([p \in lastIndex..Len(s) |-> MatchAt(s, p)])

(***************************************************************************)
(* CssSelector                                                             *)
(***************************************************************************)
\* constructor
CssSelector ==
    [element |-> Null, classNames |-> <<>>, attrs |-> <<>>, notSelectors |-> <<>>]

\* unescapeAttribute: [threw, result]; a backslash sets the flag and is
\* dropped, an unescaped "$" throws
RECURSIVE unescapeFrom(_, _, _, _)
unescapeFrom(attr, i, escaping, result) ==
    IF i > Len(attr) THEN [threw |-> FALSE, result |-> result]
    ELSE IF attr[i] = "\\" THEN unescapeFrom(attr, i + 1, TRUE, result)
    ELSE IF attr[i] = "$" /\ ~escaping THEN [threw |-> TRUE, result |-> result]
    ELSE unescapeFrom(attr, i + 1, FALSE, Append(result, attr[i]))

unescapeAttribute(attr) == unescapeFrom(attr, 1, FALSE, <<>>)

\* String.prototype.replace with a global pattern of one character
Replace(s, c, by) ==
    Concat([i \in 1..Len(s) |-> IF s[i] = c THEN by ELSE <<s[i]>>])

\* escapeAttribute: attr.replace(/\\/g, '\\\\').replace(/\$/g, '\\$')
escapeAttribute(attr) ==
    Replace(Replace(attr, "\\", <<"\\", "\\">>), "$", <<"\\", "$">>)

setElement(sel, element) == [sel EXCEPT !.element = element]

\* attrs.push(name, value && value.toLowerCase() || '')
addAttribute(sel, name, value) ==
    [sel EXCEPT !.attrs = @ \o <<name, toLowerCase(value)>>]

addClassName(sel, name) ==
    [sel EXCEPT !.classNames = Append(@, toLowerCase(name))]

RECURSIVE toString(_)
toString(sel) ==
    LET el == IF sel.element = Null THEN <<>> ELSE sel.element
        classes == Concat([i \in 1..Len(sel.classNames) |->
                              <<".">> \o sel.classNames[i]])
        attrs == Concat([k \in 1..(Len(sel.attrs) \div 2) |->
                    LET name == escapeAttribute(sel.attrs[2 * k - 1])
                        value == sel.attrs[2 * k]
                    IN  <<"[">> \o name
                        \o (IF value # <<>> THEN <<"=">> \o value ELSE <<>>)
                        \o <<"]">>])
        nots == Concat([i \in 1..Len(sel.notSelectors) |->
                    NotOpen \o toString(sel.notSelectors[i]) \o <<")">>])
    IN  el \o classes \o attrs \o nots

\* a mutation of addResult: the selector is pushed as it is
addResultAsIs(res, cssSel) == Append(res, cssSel)

\* _addResult: a selector that only negates becomes the universal selector
addResult(res, cssSel) ==
    IF /\ Len(cssSel.notSelectors) > 0
       /\ cssSel.element = Null
       /\ Len(cssSel.classNames) = 0
       /\ Len(cssSel.attrs) = 0
    THEN Append(res, [cssSel EXCEPT !.element = <<"*">>])
    ELSE Append(res, cssSel)

(***************************************************************************)
(* The scanning loop of CssSelector.parse.  st is the loop's state:        *)
(* results, cssSelector and inNot.  `current` is the last element of       *)
(* cssSelector.notSelectors while inNot holds and cssSelector otherwise    *)
(* (both are assigned together at every place of the loop).                *)
(***************************************************************************)
Current(st) ==
    IF st.inNot
    THEN st.cssSelector.notSelectors[Len(st.cssSelector.notSelectors)]
    ELSE st.cssSelector

SetCurrent(st, sel) ==
    IF st.inNot
    THEN [st EXCEPT !.cssSelector.notSelectors[Len(st.cssSelector.notSelectors)] = sel]
    ELSE [st EXCEPT !.cssSelector = sel]

Threw(what) == [threw |-> what, results |-> <<>>]

\* if (match[1]): a second ":not(" inside an open one throws
OnNot(st) ==
    IF st.inNot THEN Threw("Nesting :not in a selector is not allowed")
    ELSE [st EXCEPT !.inNot = TRUE,
                    !.cssSelector.notSelectors = Append(@, CssSelector)]

\* if (tag): "#x" is the attribute id, ".x" a class, anything else the element
OnTag(st, m) ==
    IF m.prefix = <<"#">>
    THEN SetCurrent(st, addAttribute(Current(st), <<"i", "d">>, Tail(m.tag)))
    ELSE IF m.prefix = <<".">>
    THEN SetCurrent(st, addClassName(Current(st), Tail(m.tag)))
    ELSE SetCurrent(st, setElement(Current(st), m.tag))

\* if (attribute)
OnAttribute(st, m) ==
    LET u == unescapeAttribute(m.attribute)
    IN  IF u.threw THEN Threw("Unescaped $ is not supported")
        ELSE SetCurrent(st, addAttribute(Current(st), u.result, m.value))

\* a mutation of OnNotEnd: ")" leaves the negation group open
OnNotEndLeavesOpen(st) == st

\* if (match[7]): ")" closes the group
OnNotEnd(st) == [st EXCEPT !.inNot = FALSE]

\* if (match[8]): a separator inside an open ":not(" throws, otherwise it
\* seals the selector and starts the next
OnSeparator(st) ==
    IF st.inNot THEN Threw("Multiple selectors in :not are not supported")
    ELSE [st EXCEPT !.results = addResult(@, st.cssSelector),
                    !.cssSelector = CssSelector]

\* one iteration of the while loop for the match m: the next loop state, or
\* the error thrown
ParseStep(st, m) ==
    CASE m.kind = "not" -> OnNot(st)
      [] m.kind = "tag" -> OnTag(st, m)
      [] m.kind = "attribute" -> OnAttribute(st, m)
      [] m.kind = "notEnd" -> OnNotEnd(st)
      [] m.kind = "separator" -> OnSeparator(st)

RECURSIVE ParseLoop(_, _, _)

\* after the body of the loop: the error thrown, or the next iteration
ParseNext(s, lastIndex, next) ==
    IF "threw" \in DOMAIN next THEN next ELSE ParseLoop(s, lastIndex, next)

\* the loop's test and body for the match m; when there is no match the
\* last selector is sealed and the results are returned
ParseMatch(s, st, m) ==
    IF m = NoToken
    THEN [threw |-> "", results |-> addResult(st.results, st.cssSelector)]
    ELSE ParseNext(s, m.end, ParseStep(st, m))

ParseLoop(s, lastIndex, st) == ParseMatch(s, st, RegExpExec(s, lastIndex))

\* CssSelector.parse: [threw, results]; threw = "" when it returns
parse(selector) ==
    ParseLoop(selector, 1,
              [results |-> <<>>, cssSelector |-> CssSelector, inNot |-> FALSE])

\* Array.prototype.join(',') of the selectors' toString
joinSelectors(results) ==
    Concat([i \in 1..Len(results) |->
              (IF i > 1 THEN <<",">> ELSE <<>>) \o toString(results[i])])

(***************************************************************************)
(* The page: every keyup on the text pane runs parseContent, which strips  *)
(* the leading spaces of the line, parses it and shows the selectors       *)
(* joined by ",".  An error thrown by parse ends the handler and leaves    *)
(* the output pane as it was.  The model types a single line.              *)
(***************************************************************************)
\* s.replace(/^ +/g, '')
StripLeading(s) == Slice(s, RunEnd(s, 1, {" "}), Len(s) + 1)

Shown(r, shown) ==
    [lastParse |-> r,
     parsed |-> IF r.threw = "" THEN joinSelectors(r.results) ELSE shown]

parseContent(text, shown) == Shown(parse(StripLeading(text)), shown)

(***************************************************************************)
(* SelectorMatcher.  A Map is a function from its keys; a SelectorContext  *)
(* refers to its SelectorListContext by the context's id (0 for null), and *)
(* the mutable alreadyMatched flags are kept apart from the maps, indexed  *)
(* by id, so that every SelectorContext of a batch shares one flag.        *)
(***************************************************************************)
MapHas(map, k) == k \in DOMAIN map
MapSet(map, k, v) ==
    [x \in (DOMAIN map) \cup {k} |-> IF x = k THEN v ELSE map[x]]
NewMap == <<>>

\* constructor
SelectorMatcher ==
    [elementMap |-> NewMap, elementPartialMap |-> NewMap,
     classMap |-> NewMap, classPartialMap |-> NewMap,
     attrValueMap |-> NewMap, attrValuePartialMap |-> NewMap,
     listContexts |-> <<>>]

\* constructor
SelectorContext(selector, cbContext, listContext) ==
    [selector |-> selector, cbContext |-> cbContext,
     listContext |-> listContext, notSelectors |-> selector.notSelectors]

\* _addTerminal
addTerminal(map, name, selectable) ==
    MapSet(map, name,
           Append(IF MapHas(map, name) THEN map[name] ELSE <<>>, selectable))

\* _addPartial: the nested matcher under name, a new one when there is none
addPartial(map, name) ==
    IF MapHas(map, name) THEN map[name] ELSE SelectorMatcher

\* a mutation of ElementIsTerminal: the class names are not looked at
ElementIsTerminalByAttrs(sel) == Len(sel.attrs) = 0

\* isTerminal of the element
ElementIsTerminal(sel) == Len(sel.attrs) = 0 /\ Len(sel.classNames) = 0

\* the constraints of a selector in the order _addSelectable walks them,
\* each with the isTerminal it computes
Steps(sel) ==
    (IF sel.element # Null /\ sel.element # <<>>
     THEN << [axis |-> "element", name |-> sel.element, value |-> <<>>,
              isTerminal |-> ElementIsTerminal(sel)] >>
     ELSE <<>>)
    \o [i \in 1..Len(sel.classNames) |->
          [axis |-> "class", name |-> sel.classNames[i], value |-> <<>>,
           isTerminal |-> Len(sel.attrs) = 0 /\ i = Len(sel.classNames)]]
    \o [k \in 1..(Len(sel.attrs) \div 2) |->
          [axis |-> "attr", name |-> sel.attrs[2 * k - 1],
           value |-> sel.attrs[2 * k],
           isTerminal |-> 2 * (k - 1) = Len(sel.attrs) - 2]]

\* the terminal branch of one step
StepTerminal(m, step, selectable) ==
    CASE step.axis = "element" ->
            [m EXCEPT !.elementMap = addTerminal(@, step.name, selectable)]
      [] step.axis = "class" ->
            [m EXCEPT !.classMap = addTerminal(@, step.name, selectable)]
      [] step.axis = "attr" ->
            LET terminalValuesMap ==
                    IF MapHas(m.attrValueMap, step.name)
                    THEN m.attrValueMap[step.name] ELSE NewMap
            IN  [m EXCEPT !.attrValueMap =
                    MapSet(@, step.name,
                           addTerminal(terminalValuesMap, step.value, selectable))]

\* the partial branch of one step: the nested matcher it descends into
StepNested(m, step) ==
    CASE step.axis = "element" -> addPartial(m.elementPartialMap, step.name)
      [] step.axis = "class" -> addPartial(m.classPartialMap, step.name)
      [] step.axis = "attr" ->
            addPartial(IF MapHas(m.attrValuePartialMap, step.name)
                       THEN m.attrValuePartialMap[step.name] ELSE NewMap,
                       step.value)

\* the matcher with the nested matcher of the step replaced by child
StepWithNested(m, step, child) ==
    CASE step.axis = "element" ->
            [m EXCEPT !.elementPartialMap = MapSet(@, step.name, child)]
      [] step.axis = "class" ->
            [m EXCEPT !.classPartialMap = MapSet(@, step.name, child)]
      [] step.axis = "attr" ->
            LET partialValuesMap ==
                    IF MapHas(m.attrValuePartialMap, step.name)
                    THEN m.attrValuePartialMap[step.name] ELSE NewMap
            IN  [m EXCEPT !.attrValuePartialMap =
                    MapSet(@, step.name, MapSet(partialValuesMap, step.value, child))]

RECURSIVE Insert(_, _, _)
Insert(m, steps, selectable) ==
    IF steps = <<>> THEN m
    ELSE IF Head(steps).isTerminal
    THEN Insert(StepTerminal(m, Head(steps), selectable), Tail(steps), selectable)
    ELSE StepWithNested(m, Head(steps),
             Insert(StepNested(m, Head(steps)), Tail(steps), selectable))

\* _addSelectable
addSelectable(m, cssSelector, callbackCtxt, listContext) ==
    Insert(m, Steps(cssSelector),
           SelectorContext(cssSelector, callbackCtxt, listContext))

RECURSIVE addEach(_, _, _, _, _)
addEach(m, cssSelectors, i, callbackCtxt, listContext) ==
    IF i > Len(cssSelectors) THEN m
    ELSE addEach(addSelectable(m, cssSelectors[i], callbackCtxt, listContext),
                 cssSelectors, i + 1, callbackCtxt, listContext)

\* addSelectables on matcher m whose list contexts have the flags `flags`:
\* the matcher and the flags afterwards
addSelectables(m, flags, cssSelectors, callbackCtxt) ==
    LET grouped == Len(cssSelectors) > 1
        id == Len(flags) + 1
        m1 == IF grouped
              THEN [m EXCEPT !.listContexts =
                       Append(@, [id |-> id, selectors |-> cssSelectors])]
              ELSE m
    IN  [matcher |-> addEach(m1, cssSelectors, 1, callbackCtxt,
                             IF grouped THEN id ELSE 0),
         alreadyMatched |-> IF grouped THEN Append(flags, FALSE) ELSE flags]

\* createNotMatcher
createNotMatcher(notSelectors) ==
    addSelectables(SelectorMatcher, <<>>, notSelectors, Null)

(***************************************************************************)
(* match.  h is what a call can change: the alreadyMatched flags and the   *)
(* callback invocations made so far (calls).  callback is TRUE when a      *)
(* callback is handed in and FALSE for null.                               *)
(***************************************************************************)
RECURSIVE match(_, _, _, _)

\* a mutation of MarkMatched: the flag of the list context is left alone
MarkMatchedNever(h, entry) ==
    [h EXCEPT !.calls = Append(@, <<entry.selector, entry.cbContext>>)]

\* the body of finalize's second if: mark the list context, call back
MarkMatched(h, entry) ==
    [h EXCEPT !.alreadyMatched =
                 IF entry.listContext # 0
                 THEN [@ EXCEPT ![entry.listContext] = TRUE] ELSE @,
              !.calls = Append(@, <<entry.selector, entry.cbContext>>)]

IsFree(entry, h) ==
    entry.listContext = 0 \/ ~h.alreadyMatched[entry.listContext]

\* notMatcher.match(cssSelector, null)
MatchFresh(notMatcher, cssSelector) ==
    match(notMatcher.matcher, cssSelector, FALSE,
          [alreadyMatched |-> notMatcher.alreadyMatched, calls |-> <<>>]).result

\* finalize's first if: the value of result after it
NotExcluded(entry, cssSelector, h) ==
    IF Len(entry.notSelectors) > 0 /\ IsFree(entry, h)
    THEN ~MatchFresh(createNotMatcher(entry.notSelectors), cssSelector)
    ELSE TRUE

\* finalize's second if, and its return
Finalized(entry, callback, h, result) ==
    [result |-> result,
     h |-> IF result /\ callback /\ IsFree(entry, h)
           THEN MarkMatched(h, entry) ELSE h]

\* SelectorContext.finalize
finalize(entry, cssSelector, callback, h) ==
    Finalized(entry, callback, h, NotExcluded(entry, cssSelector, h))

RECURSIVE finalizeAll(_, _, _, _, _)

FinalizeRest(rest, cssSelector, callback, result, f) ==
    finalizeAll(rest, cssSelector, callback, f.result \/ result, f.h)

\* the loop over selectables in _matchTerminal
finalizeAll(selectables, cssSelector, callback, result, h) ==
    IF selectables = <<>> THEN [result |-> result, h |-> h]
    ELSE FinalizeRest(Tail(selectables), cssSelector, callback, result,
                      finalize(Head(selectables), cssSelector, callback, h))

\* _matchTerminal; defined is FALSE when the map handed in is undefined
matchTerminal(defined, map, name, cssSelector, callback, h) ==
    IF ~defined \/ name = Null THEN [result |-> FALSE, h |-> h]
    ELSE finalizeAll((IF MapHas(map, name) THEN map[name] ELSE <<>>)
                     \o (IF MapHas(map, <<"*">>) THEN map[<<"*">>] ELSE <<>>),
                     cssSelector, callback, FALSE, h)

\* _matchPartial
matchPartial(defined, map, name, cssSelector, callback, h) ==
    IF ~defined \/ name = Null THEN [result |-> FALSE, h |-> h]
    ELSE IF ~MapHas(map, name) THEN [result |-> FALSE, h |-> h]
    ELSE match(map[name], cssSelector, callback, h)

\* the lookups match makes, in its order
Probe(terminal, defined, map, name) ==
    [terminal |-> terminal, defined |-> defined, map |-> map, name |-> name]

\* a mutation of AttrProbes: only the value itself is looked up
AttrProbesValueOnly(terminal, defined, valuesMap, value) ==
    <<Probe(terminal, defined, valuesMap, value)>>

\* if (value) the lookup of ''; then the lookup of value
AttrProbes(terminal, defined, valuesMap, value) ==
    (IF value # <<>> THEN <<Probe(terminal, defined, valuesMap, <<>>)>> ELSE <<>>)
    \o <<Probe(terminal, defined, valuesMap, value)>>

Probes(m, cssSelector) ==
    << Probe(TRUE, TRUE, m.elementMap, cssSelector.element),
       Probe(FALSE, TRUE, m.elementPartialMap, cssSelector.element) >>
    \o Concat([i \in 1..Len(cssSelector.classNames) |->
          << Probe(TRUE, TRUE, m.classMap, cssSelector.classNames[i]),
             Probe(FALSE, TRUE, m.classPartialMap, cssSelector.classNames[i]) >>])
    \o Concat([k \in 1..(Len(cssSelector.attrs) \div 2) |->
          LET name == cssSelector.attrs[2 * k - 1]
              value == cssSelector.attrs[2 * k]
              hasT == MapHas(m.attrValueMap, name)
              terminalValuesMap == IF hasT THEN m.attrValueMap[name] ELSE NewMap
              hasP == MapHas(m.attrValuePartialMap, name)
              partialValuesMap == IF hasP THEN m.attrValuePartialMap[name] ELSE NewMap
          IN  AttrProbes(TRUE, hasT, terminalValuesMap, value)
              \o AttrProbes(FALSE, hasP, partialValuesMap, value)])

RECURSIVE runProbes(_, _, _, _, _)

RunRest(rest, cssSelector, callback, result, r) ==
    runProbes(rest, cssSelector, callback, r.result \/ result, r.h)

RunProbe(p, cssSelector, callback, h) ==
    IF p.terminal
    THEN matchTerminal(p.defined, p.map, p.name, cssSelector, callback, h)
    ELSE matchPartial(p.defined, p.map, p.name, cssSelector, callback, h)

\* result = probe || result, for every lookup in turn
runProbes(probes, cssSelector, callback, result, h) ==
    IF probes = <<>> THEN [result |-> result, h |-> h]
    ELSE RunRest(Tail(probes), cssSelector, callback, result,
                 RunProbe(Head(probes), cssSelector, callback, h))

\* a mutation of ResetListContexts: the flags are left as they are
ResetNothing(m, flags) == flags

\* the loop over this._listContexts at the start of match
ResetListContexts(m, flags) ==
    [i \in 1..Len(flags) |->
        IF \E c \in 1..Len(m.listContexts) : m.listContexts[c].id = i
        THEN FALSE ELSE flags[i]]

\* SelectorMatcher.match: [result, h]
match(m, cssSelector, callback, h) ==
    runProbes(Probes(m, cssSelector), cssSelector, callback, FALSE,
              [h EXCEPT !.alreadyMatched = ResetListContexts(m, @)])

NoMatch ==
    [done |-> FALSE, query |-> CssSelector, callback |-> FALSE,
     result |-> FALSE, calls |-> <<>>, before |-> <<>>]

ShownAtLoad(out) ==
    /\ parsed = out.parsed
    /\ lastParse = out.lastParse

\* DOMContentLoaded: the first pass of parseContent, on an empty text pane
Init ==
    /\ origin = <<>>
    /\ edits = 0
    /\ ShownAtLoad(parseContent(<<>>, <<>>))
    /\ matcher = SelectorMatcher
    /\ alreadyMatched = <<>>
    /\ registered = <<>>
    /\ lastMatch = NoMatch

\* origin.addEventListener('keyup', e => parseContent())
Show(out) ==
    /\ parsed' = out.parsed
    /\ lastParse' = out.lastParse

Keyup(piece) ==
    /\ edits < MaxEdits
    /\ origin' = origin \o piece
    /\ edits' = edits + 1
    /\ Show(parseContent(origin \o piece, parsed))
    /\ UNCHANGED matcherVars

NextPage == \E piece \in Pieces : Keyup(piece)

Spec == Init /\ [][NextPage]_vars

(***************************************************************************)
(* The matcher's callers: selector texts are parsed and the whole result   *)
(* is registered as one batch (a text with "," gives a batch of several);  *)
(* a query is the first selector of a parsed text.  Every batch is handed  *)
(* in with a context of its own, its ordinal.                              *)
(***************************************************************************)
El == <<"a">>
ClsB == <<".", "b">>
ClsD == <<".", "d">>
AttrI == <<"[", "i", "]">>
AttrIT == <<"[", "i", "=", "t", "]">>
AttrIA == <<"[", "i", "=", "a", "]">>
AttrIStar == <<"[", "i", "=", "*", "]">>
Not(text) == NotOpen \o text \o <<")">>
Comma == <<",">>

SelectorTexts ==
    { El, ClsB, El \o ClsB, ClsB \o ClsD, AttrI, AttrIT, AttrIStar,
      El \o AttrI, ClsB \o AttrIT, AttrIStar \o AttrIT,
      <<>>, Comma,
      El \o Not(ClsB), Not(ClsB), El \o Not(<<>>), El \o Not(AttrIStar),
      El \o Not(ClsB) \o Not(ClsD),
      El \o ClsB \o Comma \o ClsB, ClsB \o Comma \o ClsD,
      El \o Comma \o ClsB \o Not(ClsD) }

QueryTexts ==
    { El, ClsB, El \o ClsB, El \o ClsB \o ClsD, El \o ClsB \o ClsB, El \o ClsD,
      AttrI, AttrIT, El \o AttrIA, AttrIStar, El \o ClsB \o AttrIT,
      <<>>, Not(ClsB) }

Registered(after) ==
    /\ matcher' = after.matcher
    /\ alreadyMatched' = after.alreadyMatched

Register(cssSelectors, callbackCtxt) ==
    /\ Registered(addSelectables(matcher, alreadyMatched, cssSelectors, callbackCtxt))
    /\ registered' = Append(registered,
           [selectors |-> cssSelectors, cbContext |-> callbackCtxt])

\* matcher.addSelectables(CssSelector.parse(text), context)
AddSelectables(text) ==
    /\ Len(registered) < MaxBatches
    /\ Register(parse(text).results, Len(registered) + 1)
    /\ lastMatch' = NoMatch
    /\ UNCHANGED pageVars

Matched(cssSelector, callback, out) ==
    /\ alreadyMatched' = out.h.alreadyMatched
    /\ lastMatch' = [done |-> TRUE, query |-> cssSelector,
                     callback |-> callback, result |-> out.result,
                     calls |-> out.h.calls, before |-> alreadyMatched]

MatchQuery(cssSelector, callback) ==
    Matched(cssSelector, callback,
            match(matcher, cssSelector, callback,
                  [alreadyMatched |-> alreadyMatched, calls |-> <<>>]))

\* matcher.match(CssSelector.parse(text)[0], callback)
Match(text, callback) ==
    /\ MatchQuery(parse(text).results[1], callback)
    /\ UNCHANGED <<matcher, registered>>
    /\ UNCHANGED pageVars

NextMatcher ==
    \/ \E text \in SelectorTexts : AddSelectables(text)
    \/ \E text \in QueryTexts, callback \in BOOLEAN : Match(text, callback)

SpecMatcher == Init /\ [][NextMatcher]_vars

(***************************************************************************)
(* The token stream of a text, as the scanning loop sees it, and what the  *)
(* claims say about it.                                                    *)
(***************************************************************************)
RECURSIVE TokensFrom(_, _)
TokensFrom(s, lastIndex) ==
    LET m == RegExpExec(s, lastIndex)
    IN  IF m = NoToken THEN <<>> ELSE <<m>> \o TokensFrom(s, m.end)

Tokens == TokensFrom(StripLeading(origin), 1)

\* a ":not(" before token i that no ")" has closed
OpenAt(toks, i) ==
    \E j \in 1..(i - 1) :
        /\ toks[j].kind = "not"
        /\ \A k \in (j + 1)..(i - 1) : toks[k].kind # "notEnd"

NestedNot(toks) ==
    \E i \in 1..Len(toks) : toks[i].kind = "not" /\ OpenAt(toks, i)

SeparatorInNot(toks) ==
    \E i \in 1..Len(toks) : toks[i].kind = "separator" /\ OpenAt(toks, i)

UnescapedDollar(toks) ==
    \E i \in 1..Len(toks) :
        /\ toks[i].kind = "attribute"
        /\ \E k \in 1..Len(toks[i].attribute) :
              /\ toks[i].attribute[k] = "$"
              /\ (k = 1 \/ toks[i].attribute[k - 1] # "\\")

\* C1: parse raises whenever a ":not(" or a separator is scanned inside an
\* open negation group, and returns for every token stream with neither and
\* with no unescaped "$" in an attribute name.
C1_ParseErrors ==
    /\ (NestedNot(Tokens) \/ SeparatorInNot(Tokens)) => lastParse.threw # ""
    /\ (~NestedNot(Tokens) /\ ~SeparatorInNot(Tokens) /\ ~UnescapedDollar(Tokens))
          => lastParse.threw = ""

\* a ":not(" scanned inside an open group has made parse raise
C1_Witness ==
    /\ NestedNot(Tokens)
    /\ lastParse.threw = "Nesting :not in a selector is not allowed"

\* a ":not(" that follows a closing ")" has been accepted
C1_ReopenAccepted ==
    /\ \E i \in 1..Len(Tokens), j \in 1..Len(Tokens) :
          i < j /\ Tokens[i].kind = "notEnd" /\ Tokens[j].kind = "not"
             /\ OpenAt(Tokens, i)
    /\ lastParse.threw = ""

\* C2: the text shown for an accepted input parses again to the same
\* sequence of selectors (same length; element, classNames, attrs and
\* notSelectors equal position by position).
C2_RoundTrip ==
    lastParse.threw = "" =>
        /\ parsed = joinSelectors(lastParse.results)
        /\ parse(parsed).threw = ""
        /\ parse(parsed).results = lastParse.results

\* the round trip of every accepted input none of whose attribute names
\* unescapes to the empty string
NoEmptyName(sel) ==
    /\ \A k \in 1..(Len(sel.attrs) \div 2) : sel.attrs[2 * k - 1] # <<>>
    /\ \A g \in 1..Len(sel.notSelectors) :
          \A k \in 1..(Len(sel.notSelectors[g].attrs) \div 2) :
              sel.notSelectors[g].attrs[2 * k - 1] # <<>>

C2_RoundTripOfNamedAttributes ==
    (lastParse.threw = ""
       /\ \A i \in 1..Len(lastParse.results) : NoEmptyName(lastParse.results[i]))
    => /\ parse(parsed).threw = ""
       /\ parse(parsed).results = lastParse.results

\* the tokens of the k-th top-level selector of an accepted input: those
\* with k - 1 separators before them
Segment(toks, k) ==
    {i \in 1..Len(toks) :
        /\ toks[i].kind # "separator"
        /\ Cardinality({j \in 1..(i - 1) : toks[j].kind = "separator"}) = k - 1}

\* C3: a returned top-level selector with a negation group that received no
\* element, class or attribute token has element "*"; no returned selector
\* has negation groups with nothing else set; a selector without negation
\* groups never has element "*".
C3_UniversalNormalization ==
    lastParse.threw = "" =>
        \A k \in 1..Len(lastParse.results) :
            LET r == lastParse.results[k]
                seg == Segment(Tokens, k)
                own == {i \in seg : Tokens[i].kind \in {"tag", "attribute"}
                                       /\ ~OpenAt(Tokens, i)}
            IN  /\ ((\E i \in seg : Tokens[i].kind = "not") /\ own = {})
                      => r.element = <<"*">>
                /\ ~(/\ r.notSelectors # <<>>
                     /\ r.element = Null
                     /\ r.classNames = <<>>
                     /\ r.attrs = <<>>)
                /\ r.notSelectors = <<>> => r.element # <<"*">>

\* a selector that only negates has been sealed by a separator
C3_Witness ==
    /\ lastParse.threw = ""
    /\ Len(lastParse.results) = 2
    /\ lastParse.results[1].element = <<"*">>
    /\ lastParse.results[1].notSelectors # <<>>
    /\ Tokens[Len(Tokens)].kind = "separator"

(***************************************************************************)
(* What the claims say about matching, stated on the selectors alone.      *)
(***************************************************************************)
Classes(sel) == {sel.classNames[i] : i \in 1..Len(sel.classNames)}

AttrPairs(sel) ==
    {<<sel.attrs[2 * k - 1], sel.attrs[2 * k]>> : k \in 1..(Len(sel.attrs) \div 2)}

\* the query carries attribute name, with that value when one is asked for
Carries(query, name, value) ==
    \E pair \in AttrPairs(query) :
        pair[1] = name /\ (value = <<>> \/ pair[2] = value)

\* the query carries every class and every attribute of sel
CarriesRest(query, sel) ==
    /\ Classes(sel) \subseteq Classes(query)
    /\ \A pair \in AttrPairs(sel) : Carries(query, pair[1], pair[2])

\* the same, where the value "*" of the last attribute asks for the name only
CarriesRestStar(query, sel) ==
    /\ Classes(sel) \subseteq Classes(query)
    /\ \A k \in 1..(Len(sel.attrs) \div 2) :
          Carries(query, sel.attrs[2 * k - 1],
                  IF 2 * k = Len(sel.attrs) /\ sel.attrs[2 * k] = <<"*">>
                  THEN <<>> ELSE sel.attrs[2 * k])

NoConstraint(sel) ==
    sel.element = Null /\ sel.classNames = <<>> /\ sel.attrs = <<>>

\* one batch of one selector has been registered
Alone == Len(registered) = 1 /\ Len(registered[1].selectors) = 1
Reg == registered[1].selectors[1]

AllRegistered ==
    UNION { {registered[b].selectors[i] : i \in 1..Len(registered[b].selectors)} :
            b \in 1..Len(registered) }

CallsFor(ctx) ==
    {i \in 1..Len(lastMatch.calls) : lastMatch.calls[i][2] = ctx}

\* C4: a selector without negation groups registered alone, and a query
\* that carries its element, classes and attributes: match returns true and
\* invokes the callback exactly once, with the selector and its context.
C4_Containment ==
    (/\ lastMatch.done
     /\ Alone
     /\ Reg.notSelectors = <<>>
     /\ Reg.element \in {Null, lastMatch.query.element}
     /\ CarriesRest(lastMatch.query, Reg))
    => /\ lastMatch.result
       /\ lastMatch.callback =>
             lastMatch.calls = << <<Reg, registered[1].cbContext>> >>

\* what holds of such a selector when it has a constraint: match returns
\* true, and every invocation is for it
C4_ContainmentAtLeastOnce ==
    (/\ lastMatch.done
     /\ Alone
     /\ Reg.notSelectors = <<>>
     /\ ~NoConstraint(Reg)
     /\ Reg.element \in {Null, lastMatch.query.element}
     /\ CarriesRest(lastMatch.query, Reg))
    => /\ lastMatch.result
       /\ lastMatch.callback =>
             /\ Len(lastMatch.calls) >= 1
             /\ \A i \in 1..Len(lastMatch.calls) :
                   lastMatch.calls[i] = <<Reg, registered[1].cbContext>>

\* C5: one top-level match invokes the callback at most once for the
\* members of a batch of more than one selector.
C5_GroupAtMostOnce ==
    lastMatch.done =>
        \A b \in 1..Len(registered) :
            Len(registered[b].selectors) > 1 =>
                Cardinality(CallsFor(registered[b].cbContext)) <= 1

\* the query satisfies two members of a batch, one of them below a partial
\* map, and the callback has been invoked once for the batch
C5_Witness ==
    /\ lastMatch.done
    /\ \E b \in 1..Len(registered) :
          /\ Len(registered[b].selectors) = 2
          /\ \A i \in 1..2 :
                /\ registered[b].selectors[i].element
                      \in {Null, lastMatch.query.element}
                /\ CarriesRest(lastMatch.query, registered[b].selectors[i])
          /\ Len(Steps(registered[b].selectors[1])) = 2
          /\ Cardinality(CallsFor(registered[b].cbContext)) = 1

\* the query satisfies the element, the classes and the attributes of sel
\* ("*" stands for any element the query has)
SatisfiesOwn(query, sel) ==
    /\ \/ sel.element = Null
       \/ /\ query.element # Null
          /\ sel.element \in {query.element, <<"*">>}
    /\ CarriesRestStar(query, sel)

\* C6: a selector with negation groups registered alone, whose own
\* constraints the query satisfies, is matched (true, callback invoked) if
\* and only if the query satisfies none of its negation groups; otherwise
\* match returns false and the callback is not invoked.
C6_NegationExclusion ==
    (/\ lastMatch.done
     /\ lastMatch.callback
     /\ Alone
     /\ Reg.notSelectors # <<>>
     /\ SatisfiesOwn(lastMatch.query, Reg))
    => LET excluded == \E g \in 1..Len(Reg.notSelectors) :
                           SatisfiesOwn(lastMatch.query, Reg.notSelectors[g])
       IN  /\ ~excluded => (lastMatch.result /\ lastMatch.calls # <<>>)
           /\ excluded => (~lastMatch.result /\ lastMatch.calls = <<>>)

\* the same for the selectors none of whose negation groups is empty
C6_NegationExclusionOfConstrainedGroups ==
    (/\ lastMatch.done
     /\ lastMatch.callback
     /\ Alone
     /\ Reg.notSelectors # <<>>
     /\ \A g \in 1..Len(Reg.notSelectors) : ~NoConstraint(Reg.notSelectors[g])
     /\ SatisfiesOwn(lastMatch.query, Reg))
    => LET excluded == \E g \in 1..Len(Reg.notSelectors) :
                           SatisfiesOwn(lastMatch.query, Reg.notSelectors[g])
       IN  /\ ~excluded => (lastMatch.result /\ lastMatch.calls # <<>>)
           /\ excluded => (~lastMatch.result /\ lastMatch.calls = <<>>)

OnlyAttributes(sel) ==
    sel.element = Null /\ sel.classNames = <<>> /\ sel.attrs # <<>>

\* C7: a registered attribute (n, "") is satisfied by every query that
\* carries n, and a registered (n, v) with v not empty only by a query whose
\* attribute n has the value v.
C7_PresenceAndValue ==
    (lastMatch.done /\ Alone /\ Reg.notSelectors = <<>>)
    => /\ lastMatch.result =>
             \A pair \in AttrPairs(Reg) :
                 Carries(lastMatch.query, pair[1], pair[2])
       /\ (OnlyAttributes(Reg) /\ CarriesRest(lastMatch.query, Reg))
             => lastMatch.result

\* C7 as amended: the value "*" of the last attribute of the registered
\* selector is a wildcard, satisfied by every query that carries the name.
C7_PresenceAndValueOrStar ==
    (lastMatch.done /\ Alone /\ Reg.notSelectors = <<>>)
    => /\ lastMatch.result => CarriesRestStar(lastMatch.query, Reg)
       /\ (OnlyAttributes(Reg) /\ CarriesRestStar(lastMatch.query, Reg))
             => lastMatch.result

\* a registered [n] has matched a query that carries n with a value
C7_Witness ==
    /\ lastMatch.done
    /\ Alone
    /\ OnlyAttributes(Reg)
    /\ Len(Reg.attrs) = 2
    /\ Reg.attrs[2] = <<>>
    /\ \E pair \in AttrPairs(lastMatch.query) :
          pair[1] = Reg.attrs[1] /\ pair[2] # <<>>
    /\ lastMatch.result

\* C8: once a selector with no element, class or attribute has been
\* registered, match returns true for every query.
C8_NoConstraintAlwaysMatches ==
    (lastMatch.done /\ \E sel \in AllRegistered : NoConstraint(sel))
    => lastMatch.result

\* C9: a match call returns and calls back as it would on the freshly built
\* index, whatever matches were made before it.
C9_RepeatedQueriesIndependent ==
    lastMatch.done =>
        LET fresh == match(matcher, lastMatch.query, lastMatch.callback,
                           [alreadyMatched |-> [i \in 1..Len(alreadyMatched) |-> FALSE],
                            calls |-> <<>>])
        IN  /\ lastMatch.result = fresh.result
            /\ lastMatch.calls = fresh.h.calls

\* a match that found a batch's flag still set by an earlier match has
\* invoked the callback for that batch
C9_Witness ==
    /\ lastMatch.done
    /\ \E b \in 1..Len(registered) :
          /\ Len(registered[b].selectors) > 1
          /\ CallsFor(registered[b].cbContext) # {}
          /\ \E i \in 1..Len(lastMatch.before) :
                /\ lastMatch.before[i]
                /\ matcher.listContexts[i].selectors = registered[b].selectors

ElementContained(query, sel) ==
    sel.element = Null \/ sel.element = query.element \/ sel.element = <<"*">>

\* C10: match returns true only if some registered selector is contained
\* in the query: its element is unset, the query's or "*", its classes are
\* among the query's, and its attributes are carried by the query with an
\* empty registered value or an equal one.
C10_NoSpuriousMatch ==
    (lastMatch.done /\ lastMatch.result)
    => \E sel \in AllRegistered :
           ElementContained(lastMatch.query, sel) /\ CarriesRest(lastMatch.query, sel)

\* C10 as amended: the value "*" of a registered selector's last attribute
\* asks for the name only.
C10_NoSpuriousMatchOrStar ==
    (lastMatch.done /\ lastMatch.result)
    => \E sel \in AllRegistered :
           ElementContained(lastMatch.query, sel)
              /\ CarriesRestStar(lastMatch.query, sel)

\* a match has been found below a partial map, by a query with more than
\* the registered selector asks for
C10_Witness ==
    /\ lastMatch.done
    /\ lastMatch.result
    /\ Alone
    /\ Len(Steps(Reg)) = 2
    /\ Len(Steps(lastMatch.query)) > 2

====
